---- MODULE Spec2Model ----
(***************************************************************************)
(* goreap: a process supervisor.  The module models reap/reap.go (the      *)
(* Reap value, Exec, Supervise, Reap, the reaper goroutine and waitpid),   *)
(* the two descendant resolvers of package process, and the part of the    *)
(* kernel they act on: the process table (fork, exit, reparenting to the   *)
(* subreaper, zombies, kill, wait) and the delivery of signals to the      *)
(* supervisor through the one-slot channel given to signal.Notify.         *)
(***************************************************************************)
EXTENDS Integers, Sequences, FiniteSets, TLC

\* ------------------------------------------------------------------ bounds
\* Number of pids available to the supervisor's descendants.
NumProcs == 2
\* The largest count kept of tick broadcasts made after the timer fired.
MaxLate == 2

\* --------------------------------------------------------------- constants
\* Signal numbers (linux) as named in reap.go.
SIGINT == 2
SIGKILL == 9
SIGPIPE == 13
SIGTERM == 15
SIGCHLD == 17
SIGURG == 23
SIGIO == 29
\* time.Duration(maxInt64): the largest duration; a timer armed with it
\* does not fire during a run.  Written in the model's integer width.
maxInt64 == 2147483647

\* The supervisor's own pid and the pid of init.
Self == 1
InitPid == 0
Pids == 2..(NumProcs + 1)
\* The calls of Exec or Supervise made on the one Reap value.
Inv == {1, 2}

\* Signals the environment delivers to the supervisor (SIGKILL cannot be caught).
Filtered == {SIGCHLD, SIGIO, SIGPIPE, SIGURG}
Inbound == {SIGINT} \cup Filtered
\* Values given to the options of New.
OptSignals == {SIGTERM, SIGKILL}
OptDeadlines == {0, 1}
OptDelays == {0, 1}
\* The same with a negative duration, which WithDelay accepts as well.
AnyDelays == {-1} \cup OptDelays
ExitCodes == {0, 1}

VARIABLES
    pst,      \* kernel: pid -> "free" | "live" | "zombie"
    ppid,     \* kernel: pid -> parent pid
    ign,      \* kernel: pid -> the process ignores every catchable signal
    wst,      \* kernel: pid -> wait status of a zombie
    subreaper,\* kernel: PR_SET_CHILD_SUBREAPER is set on the supervisor
    nnp,      \* kernel: the no_new_privs bit of the thread of each call and of each pid
    opts,     \* the signal and the deadline New was called with
    r,        \* the Reap value: sig, wait, deadline, delay, err
    strategy, \* the resolver process.New handed out: "ps" | "children"
    sigch,    \* r.sigch: the channel of signal.Notify, capacity 1
    pc,       \* invocation -> position of the calling goroutine
    kind,     \* invocation -> "Supervise" | "Exec"
    fg,       \* invocation -> pid of its foreground command
    waitch,   \* invocation -> result of cmd.Wait, or Empty
    lost,     \* invocation -> its foreground was collected by another waiter
    ret,      \* invocation -> (status, err) of Exec, then of the call
    fwd,      \* invocation -> broadcast in progress in waitpid
    rpc,      \* invocation -> position of its reaper goroutine
    bc,       \* invocation -> broadcast in progress in the reaper
    timer,    \* invocation -> deadline timer t: "off" | "armed" | "fired" | "done"
    late,     \* invocation -> history: tick broadcasts of the signal configured,
              \* begun after its timer fired (counted up to MaxLate)
    exitch,   \* invocation -> "none" | "open" | "closed"
    dropped,  \* history: the last forwardable signal the runtime dropped, or 0
    fs,       \* package process: the PROC variable and the kernel's children listing
    po,       \* package process: the options given to process.New
    ps,       \* package process: the resolver process.New handed out
    res,      \* package process: (pids, err) of the last Children() on ps
    stat,     \* package process: the fields of a stat file given to readProcStat
    parsed,   \* package process: (PID, err) readProcStat returned for it
    scan,     \* package process: a call of descendents: its arguments, the
              \* frames of walk, the map children, what it returned
    listing   \* package process: the content of a children file given to
              \* readChildren and what it returned

kvars == <<pst, ppid, ign, wst, subreaper, nnp>>
cvars == <<opts, r, strategy>>
ivars == <<pc, kind, fg, waitch, lost, ret, fwd>>
rvars == <<rpc, bc, timer, exitch, late>>
pvars == <<fs, po, ps, res, stat, parsed, scan, listing>>
\* What no step of the supervisor writes.
hvars == <<dropped, pvars>>
vars == <<kvars, cvars, sigch, ivars, rvars, hvars>>

\* ------------------------------------------------------------------ values
Empty == [k |-> "empty", v |-> 0]
NoStatus == [k |-> "none", v |-> 0]
Exited(c) == [k |-> "exit", v |-> c]
Signaled(s) == [k |-> "sig", v |-> s]
NoBroadcast == [pids |-> <<>>, any |-> FALSE, sig |-> 0, by |-> "none"]
NoOptions == [given |-> FALSE, pid |-> 0, procfs |-> "", snapshot |-> ""]
NoResolver == [kind |-> "none", pid |-> 0, procfs |-> "", snapshot |-> ""]
NoResult == [pids |-> <<>>, any |-> FALSE, err |-> "none"]
NoStat == [pid |-> 0, comm |-> <<>>, state |-> "", ppid |-> 0]
NoPID == [Pid |-> 0, PPid |-> 0, err |-> "none"]
NoScan == [pids |-> <<>>, pid |-> 0, stack |-> <<>>, children |-> {}, marks |-> <<>>,
           out |-> <<>>, done |-> FALSE]
NoListing == [b |-> <<>>, out |-> <<>>, done |-> FALSE]
NoPrivs == [thread |-> [i \in Inv |-> FALSE], proc |-> [p \in Pids |-> FALSE]]

\* ----------------------------------------------------------------- helpers
\* The elements of a finite set of integers, in ascending order.
RECURSIVE SeqOf(_)
SeqOf(S) ==
    IF S = {} THEN <<>>
    ELSE LET m == CHOOSE x \in S : \A y \in S : x <= y
         IN <<m>> \o SeqOf(S \ {m})

Range(s) == {s[i] : i \in DOMAIN s}

\* Sequence s without its k-th element.
Remove(s, k) == [i \in 1..(Len(s) - 1) |-> IF i < k THEN s[i] ELSE s[i + 1]]

\* ------------------------------------------------------------------ kernel
Exists(p) == p = Self \/ (p \in Pids /\ pst[p] # "free")
Parent(p) == IF p = Self THEN InitPid ELSE ppid[p]
ChildrenOf(p) == {q \in Pids : pst[q] # "free" /\ ppid[q] = p}

\* (mutant) the attribute is seen on the main thread alone.
GetMainThread(t) == subreaper /\ t = 1

\* subreaper.Get from thread t, prctl(PR_GET_CHILD_SUBREAPER): the attribute
\* belongs to the process, whichever thread asks.
Get(t) == subreaper

\* A process whose parent exits is adopted by the nearest subreaper, else init.
NewParent == IF subreaper THEN Self ELSE InitPid

\* Foreground commands that some invocation is still waiting for.
IsFg(p) == \E i \in Inv : fg[i] = p /\ pc[i] \in {"running", "fwd"} /\ waitch[i] = Empty

\* Process p terminates with wait status st: it becomes a zombie of its parent
\* and its own children are re-parented.
Die(p, st) ==
    /\ pst' = [pst EXCEPT ![p] = "zombie"]
    /\ wst' = [wst EXCEPT ![p] = IF IsFg(p) THEN st ELSE NoStatus]
    /\ ppid' = [q \in Pids |-> IF pst[q] # "free" /\ ppid[q] = p THEN NewParent ELSE ppid[q]]
    /\ UNCHANGED <<ign, subreaper, nnp>>

\* A zombie is collected by a wait call: its pid becomes free.
Collect(p) ==
    /\ pst' = [pst EXCEPT ![p] = "free"]
    /\ wst' = [wst EXCEPT ![p] = NoStatus]
    /\ ppid' = [ppid EXCEPT ![p] = InitPid]
    /\ ign' = [ign EXCEPT ![p] = FALSE]
    /\ nnp' = [nnp EXCEPT !.proc[p] = FALSE]
    /\ UNCHANGED subreaper

\* kill(2): the error returned for (pid, sig) in the current state.
KillErr(p) == IF Exists(p) THEN "nil" ELSE "ESRCH"

\* kill(2): a live target dies unless it ignores the signal; SIGKILL cannot be
\* ignored; SIGCHLD and SIGURG are discarded by default.
Fatal(p, sig) ==
    /\ p \in Pids
    /\ pst[p] = "live"
    /\ \/ sig = SIGKILL
       \/ sig \notin {SIGCHLD, SIGURG} /\ ~ign[p]

Kill(p, sig) ==
    IF Fatal(p, sig) THEN Die(p, Signaled(sig)) ELSE UNCHANGED kvars

\* --------------------------------------------------------------- resolvers
\* Snapshot: one PID record per numeric entry of procfs, in the order of the
\* directory listing; a zombie keeps its entry until it is collected.
Snapshot ==
    [i \in 1..Cardinality({p \in {Self} \cup Pids : Exists(p)}) |->
        LET p == SeqOf({q \in {Self} \cup Pids : Exists(q)})[i]
        IN [Pid |-> p, PPid |-> Parent(p)]]

subprocs(pids, pid) == SelectSeq(pids, LAMBDA p : p.PPid = pid)

\* walk marks every record whose PPid is pid, then walks from it; children is
\* the set of pids marked so far.
RECURSIVE walk(_, _, _), walkEach(_, _, _)
walkEach(pids, cld, children) ==
    IF cld = <<>> THEN children
    ELSE CHOOSE out \in
            {IF p.Pid \in c
             THEN walkEach(pids, Tail(cld), c)
             ELSE walkEach(pids, Tail(cld), walk(pids, p.Pid, c \cup {p.Pid})) :
                p \in {Head(cld)}, c \in {children}} : TRUE
walk(pids, pid, children) == walkEach(pids, subprocs(pids, pid), children)

\* (mutant) the root itself is marked before the walk starts.
descendentsRootMarked(pids, pid) == walk(pids, pid, {pid})

\* The keys of the map filled by walk.
descendents(pids, pid) == walk(pids, pid, {})

\* Ps.Children: (pids, err).  The slice is built by ranging over a map, so
\* its order is not fixed: any marks a result whose elements may come in any
\* order, and a loop over it takes them in any order.
PsChildren(pid) ==
    IF ~Exists(pid) THEN [pids |-> <<>>, any |-> FALSE, err |-> "ESRCH"]
    ELSE CHOOSE out \in
            {[pids |-> SeqOf(descendents(pids, pid)), any |-> TRUE, err |-> "nil"] :
                pids \in {Snapshot}} : TRUE

\* The children listing of the supervisor's tasks, as the kernel prints it:
\* the pids of its direct children, as decimal tokens.
Digits == <<"0", "1", "2", "3", "4", "5", "6", "7", "8", "9">>
Itoa(n) == IF n < 10 THEN <<Digits[n + 1]>> ELSE <<Digits[(n \div 10) + 1], Digits[(n % 10) + 1]>>
ChildrenFile == [i \in 1..Cardinality(ChildrenOf(Self)) |-> Itoa(SeqOf(ChildrenOf(Self))[i])]

\* strconv.Atoi on a token (a sequence of characters).
IsDigit(c) == \E d \in 1..10 : Digits[d] = c
DigitVal(c) == (CHOOSE d \in 1..10 : Digits[d] = c) - 1
RECURSIVE ParseUint(_, _)
ParseUint(s, acc) == IF s = <<>> THEN acc ELSE ParseUint(Tail(s), 10 * acc + DigitVal(Head(s)))
Atoi(s) ==
    LET body == IF s # <<>> /\ Head(s) \in {"-", "+"} THEN Tail(s) ELSE s
    IN IF body = <<>> \/ \E i \in DOMAIN body : ~IsDigit(body[i])
       THEN [val |-> 0, err |-> "syntax"]
       ELSE [val |-> IF Head(s) = "-" THEN 0 - ParseUint(body, 0) ELSE ParseUint(body, 0),
             err |-> "nil"]

\* readChildren: one slot per token; a token that does not parse leaves its
\* slot at the zero value.
readChildren(tokens) ==
    [i \in DOMAIN tokens |-> IF Atoi(tokens[i]).err = "nil" THEN Atoi(tokens[i]).val ELSE 0]

\* ProcChildren.Children: (pids, err), in the order of the listing.
ProcChildrenChildren(pid) ==
    IF ~Exists(pid) THEN [pids |-> <<>>, any |-> FALSE, err |-> "ESRCH"]
    ELSE [pids |-> readChildren(ChildrenFile), any |-> FALSE, err |-> "nil"]

\* r.Children() through the embedded process.Process.
Children ==
    IF strategy = "ps" THEN PsChildren(Self) ELSE ProcChildrenChildren(Self)

\* ------------------------------------------------------------ construction
\* (mutant) a deadline of 0 is kept as it is.
WithDeadlineRaw(t) == t

WithDeadline(t) == IF t = 0 THEN maxInt64 ELSE t
WithDelay(t) == IF t = 0 THEN 1 ELSE t

\* New: the defaults, the options, then prctl(PR_SET_CHILD_SUBREAPER); ok is
\* whether the kernel accepts the prctl.
New(o, ok) ==
    [sig |-> o.signal,
     wait |-> o.wait,
     deadline |-> WithDeadline(o.deadline),
     delay |-> WithDelay(o.delay),
     disableSetuid |-> o.disableSetuid,
     err |-> IF ok THEN "nil" ELSE "EINVAL"]

\* process.New() with no option: the children resolver when the kernel has
\* the children listing, the scan resolver otherwise.
ProcessNew(hasChildrenFile) == IF hasChildrenFile THEN "children" ELSE "ps"

\* The state after reap.New, called with a delay of the set delays and
\* WithDisableSetuid(b) for a b of the set flags.
InitWith(delays, flags) ==
    /\ pst = [p \in Pids |-> "free"]
    /\ ppid = [p \in Pids |-> InitPid]
    /\ ign = [p \in Pids |-> FALSE]
    /\ wst = [p \in Pids |-> NoStatus]
    /\ subreaper \in BOOLEAN
    /\ nnp = NoPrivs
    /\ \E o \in [signal : OptSignals, wait : BOOLEAN, deadline : OptDeadlines, delay : delays,
                 disableSetuid : flags] :
          /\ opts = [signal |-> o.signal, deadline |-> o.deadline]
          /\ r = New(o, subreaper)
    /\ \E hasChildrenFile \in BOOLEAN : strategy = ProcessNew(hasChildrenFile)
    /\ sigch = <<>>
    /\ pc = [i \in Inv |-> "idle"]
    /\ kind = [i \in Inv |-> "none"]
    /\ fg = [i \in Inv |-> 0]
    /\ waitch = [i \in Inv |-> Empty]
    /\ lost = [i \in Inv |-> FALSE]
    /\ ret = [i \in Inv |-> [status |-> 0, err |-> "nil"]]
    /\ fwd = [i \in Inv |-> NoBroadcast]
    /\ rpc = [i \in Inv |-> "none"]
    /\ bc = [i \in Inv |-> NoBroadcast]
    /\ timer = [i \in Inv |-> "off"]
    /\ late = [i \in Inv |-> 0]
    /\ exitch = [i \in Inv |-> "none"]
    /\ dropped = 0
    /\ fs = [PROC |-> "", children |-> strategy = "children"]
    /\ po = NoOptions
    /\ ps = NoResolver
    /\ res = NoResult
    /\ stat = NoStat
    /\ parsed = NoPID
    /\ scan = NoScan
    /\ listing = NoListing

\* reap.New with a delay that is not negative and disableSetuid left unset.
Init == InitWith(OptDelays, {FALSE})

\* ------------------------------------------------------- the environment
\* A live descendant forks: the child inherits the ignored signals and the
\* no_new_privs bit.
Fork(p, q) ==
    /\ pst[p] = "live"
    /\ pst[q] = "free"
    /\ pst' = [pst EXCEPT ![q] = "live"]
    /\ ppid' = [ppid EXCEPT ![q] = p]
    /\ ign' = [ign EXCEPT ![q] = ign[p]]
    /\ nnp' = [nnp EXCEPT !.proc[q] = nnp.proc[p]]
    /\ UNCHANGED <<wst, subreaper, cvars, hvars, sigch, ivars, rvars>>

\* A live descendant exits with code c.
Exit(p, c) ==
    /\ pst[p] = "live"
    /\ c = 0 \/ IsFg(p)
    /\ Die(p, Exited(c))
    /\ UNCHANGED <<cvars, hvars, sigch, ivars, rvars>>

\* A descendant collects its own zombie child.
ParentWait(p) ==
    /\ pst[p] = "zombie"
    /\ ppid[p] \in Pids
    /\ Collect(p)
    /\ UNCHANGED <<cvars, hvars, sigch, ivars, rvars>>

\* The runtime hands a signal to the channel of signal.Notify without
\* blocking: the signal is queued when the channel has room; when the channel
\* is full the signal is dropped and nothing changes.
Deliver(s) ==
    /\ Len(sigch) < 1
    /\ sigch' = Append(sigch, s)
    /\ UNCHANGED <<kvars, cvars, hvars, ivars, rvars>>

\* -------------------------------------------------------------- broadcast
\* signalWith(sig): the broadcast it starts from the result of Children();
\* an error of Children() is logged and nothing is sent.
signalWith(sig, by) ==
    CHOOSE b \in
        {IF c.err = "nil" /\ c.pids # <<>>
         THEN [pids |-> c.pids, any |-> c.any, sig |-> sig, by |-> by]
         ELSE NoBroadcast : c \in {Children}} : TRUE

\* The positions the loop of signalWith may take next.
Turn(b) == IF b.any THEN DOMAIN b.pids ELSE {1}

\* One iteration of the loop of signalWith: r.kill on the pid at position k.
kill(b, k) == Kill(b.pids[k], b.sig)

Rest(b, k) == IF Len(b.pids) = 1 THEN NoBroadcast ELSE [b EXCEPT !.pids = Remove(b.pids, k)]

\* -------------------------------------------------------------------- Reap
\* Reap: make exitch, start the reaper goroutine, enter the Wait4 loop.
EnterReap(i) ==
    /\ exitch' = [exitch EXCEPT ![i] = "open"]
    /\ rpc' = [rpc EXCEPT ![i] = "start"]
    /\ pc' = [pc EXCEPT ![i] = "harvest"]
    /\ UNCHANGED <<bc, timer, late>>

\* The call returns to its caller.
Return(i) ==
    /\ pc' = [pc EXCEPT ![i] = "returned"]
    /\ UNCHANGED rvars

\* After Exec: Supervise goes on to Reap, a bare Exec returns.
AfterExec(i, k) == IF k = "Supervise" THEN EnterReap(i) ELSE Return(i)

\* -------------------------------------------------------------------- Exec
\* Exec with r.err set: 111 and the recorded error, nothing is spawned.
ExecFailed(i, k) ==
    /\ r.err # "nil"
    /\ ret' = [ret EXCEPT ![i] = [status |-> 111, err |-> r.err]]
    /\ kind' = [kind EXCEPT ![i] = k]
    /\ AfterExec(i, k)
    /\ UNCHANGED <<kvars, cvars, hvars, sigch, fg, waitch, lost, fwd>>

\* (mutant) the prctl is left out: the thread keeps the bit it had.
setNoNewPrivsSkipped(i) == nnp.thread[i]

\* The no_new_privs bit of the calling thread after Exec's prctl: the
\* goroutine is locked to its thread, whose bit is set when r.disableSetuid.
setNoNewPrivs(i) == nnp.thread[i] \/ r.disableSetuid

\* Exec with r.disableSetuid: prctl(PR_SET_NO_NEW_PRIVS) fails (a kernel
\* without the attribute); 111 and the wrapped error, nothing is spawned.
ExecNoPrivs(i, k) ==
    /\ r.err = "nil"
    /\ r.disableSetuid
    /\ ret' = [ret EXCEPT ![i] = [status |-> 111, err |-> "prctl(PR_SET_NO_NEW_PRIVS)"]]
    /\ kind' = [kind EXCEPT ![i] = k]
    /\ AfterExec(i, k)
    /\ UNCHANGED <<kvars, cvars, hvars, sigch, fg, waitch, lost, fwd>>

\* execv: cmd.Start fails.
ExecNoStart(i, k) ==
    /\ r.err = "nil"
    /\ ret' = [ret EXCEPT ![i] = [status |-> 127, err |-> "ENOENT"]]
    /\ kind' = [kind EXCEPT ![i] = k]
    /\ nnp' = [nnp EXCEPT !.thread[i] = setNoNewPrivs(i)]
    /\ AfterExec(i, k)
    /\ UNCHANGED <<pst, ppid, ign, wst, subreaper, cvars, hvars, sigch, fg, waitch, lost, fwd>>

\* (mutant) the foreground is started without looking at r.err.
ExecStartUnchecked(i, k, q, ig) ==
    /\ pst[q] = "free"
    /\ pst' = [pst EXCEPT ![q] = "live"]
    /\ ppid' = [ppid EXCEPT ![q] = Self]
    /\ ign' = [ign EXCEPT ![q] = ig]
    /\ nnp' = [nnp EXCEPT !.thread[i] = setNoNewPrivs(i), !.proc[q] = setNoNewPrivs(i)]
    /\ fg' = [fg EXCEPT ![i] = q]
    /\ kind' = [kind EXCEPT ![i] = k]
    /\ pc' = [pc EXCEPT ![i] = "running"]
    /\ UNCHANGED <<wst, subreaper, cvars, hvars, sigch, waitch, lost, ret, fwd, rvars>>

\* execv: cmd.Start succeeds, the foreground q is a child of the supervisor;
\* the goroutine running cmd.Wait is started and waitpid is entered.
ExecStart(i, k, q, ig) ==
    /\ r.err = "nil"
    /\ pst[q] = "free"
    /\ pst' = [pst EXCEPT ![q] = "live"]
    /\ ppid' = [ppid EXCEPT ![q] = Self]
    /\ ign' = [ign EXCEPT ![q] = ig]
    /\ nnp' = [nnp EXCEPT !.thread[i] = setNoNewPrivs(i), !.proc[q] = setNoNewPrivs(i)]
    /\ fg' = [fg EXCEPT ![i] = q]
    /\ kind' = [kind EXCEPT ![i] = k]
    /\ pc' = [pc EXCEPT ![i] = "running"]
    /\ UNCHANGED <<wst, subreaper, cvars, hvars, sigch, waitch, lost, ret, fwd, rvars>>

Exec(i, k) ==
    \/ ExecFailed(i, k)
    \/ ExecNoPrivs(i, k)
    \/ ExecNoStart(i, k)
    \/ \E q \in Pids, ig \in BOOLEAN : ExecStart(i, k, q, ig)

Call(i, k) ==
    /\ pc[i] = "idle"
    /\ Exec(i, k)

\* The goroutine of execv: cmd.Wait collects the foreground, or fails with
\* ECHILD when another wait call collected it. cmd.Wait names the foreground
\* by a process handle where the runtime and the kernel provide one, and by
\* its pid otherwise: by pid, a wait for a foreground that was collected
\* elsewhere collects whichever child of the supervisor has that pid now.
cmdWait(i) ==
    /\ pc[i] \in {"running", "fwd"}
    /\ waitch[i] = Empty
    /\ \/ /\ lost[i]
          /\ waitch' = [waitch EXCEPT ![i] = [k |-> "err", v |-> 0]]
          /\ UNCHANGED <<kvars, lost>>
       \/ /\ pst[fg[i]] = "zombie"
          /\ ppid[fg[i]] = Self
          /\ waitch' = [waitch EXCEPT ![i] = wst[fg[i]]]
          /\ Collect(fg[i])
          /\ lost' = [j \in Inv |-> lost[j] \/ (j # i /\ fg[j] = fg[i] /\ IsFg(fg[i]))]
    /\ UNCHANGED <<cvars, hvars, sigch, pc, kind, fg, ret, fwd, rvars>>

\* (mutant) a signal that is not filtered cancels the wait: waitpid returns
\* 128 + the signal number.
waitpidSignalCancel(i) ==
    /\ pc[i] = "running"
    /\ sigch # <<>>
    /\ sigch' = Tail(sigch)
    /\ IF Head(sigch) \in Filtered
       THEN UNCHANGED <<ret, pc, rpc, exitch>>
       ELSE /\ ret' = [ret EXCEPT ![i] = [status |-> 128 + Head(sigch), err |-> "nil"]]
            /\ AfterExec(i, kind[i])
    /\ UNCHANGED <<kvars, cvars, hvars, kind, fg, waitch, lost, fwd, bc, timer, late>>

\* waitpid, case sig := <-r.sigch.
waitpidSignal(i) ==
    /\ pc[i] = "running"
    /\ sigch # <<>>
    /\ sigch' = Tail(sigch)
    /\ IF Head(sigch) \in Filtered
       THEN UNCHANGED <<fwd, pc>>
       ELSE \E b \in {signalWith(Head(sigch), "fwd")} :
               /\ fwd' = [fwd EXCEPT ![i] = b]
               /\ pc' = [pc EXCEPT ![i] = IF b = NoBroadcast THEN "running" ELSE "fwd"]
    /\ UNCHANGED <<kvars, cvars, hvars, kind, fg, waitch, lost, ret, rvars>>

\* waitpid, inside signalWith: the next kill of the forwarded signal.
waitpidKill(i) ==
    /\ pc[i] = "fwd"
    /\ \E k \in Turn(fwd[i]) :
          /\ kill(fwd[i], k)
          /\ fwd' = [fwd EXCEPT ![i] = Rest(fwd[i], k)]
    /\ pc' = [pc EXCEPT ![i] = IF fwd'[i] = NoBroadcast THEN "running" ELSE "fwd"]
    /\ UNCHANGED <<cvars, hvars, sigch, kind, fg, waitch, lost, ret, rvars>>

\* (mutant) a foreground killed by a signal is reported by the bare signal number.
waitpidStatusNoOffset(w) ==
    IF w.k = "exit" /\ w.v = 0 THEN [status |-> 0, err |-> "nil"]
    ELSE IF w.k = "err" THEN [status |-> 128, err |-> "ECHILD"]
    ELSE [status |-> w.v, err |-> "nil"]

\* The (status, err) waitpid returns for the result w of cmd.Wait.
waitpidStatus(w) ==
    IF w.k = "exit" /\ w.v = 0 THEN [status |-> 0, err |-> "nil"]
    ELSE IF w.k = "err" THEN [status |-> 128, err |-> "ECHILD"]
    ELSE IF w.k = "sig" THEN [status |-> 128 + w.v, err |-> "nil"]
    ELSE [status |-> w.v, err |-> "nil"]

\* waitpid, case err := <-waitch: Exec returns; Supervise calls Reap.
waitpidExit(i) ==
    /\ pc[i] = "running"
    /\ waitch[i] # Empty
    /\ ret' = [ret EXCEPT ![i] = waitpidStatus(waitch[i])]
    /\ waitch' = [waitch EXCEPT ![i] = Empty]
    /\ fg' = [fg EXCEPT ![i] = 0]
    /\ lost' = [lost EXCEPT ![i] = FALSE]
    /\ AfterExec(i, kind[i])
    /\ UNCHANGED <<kvars, cvars, hvars, sigch, kind, fwd>>

\* (mutant) Wait4 is called between two rounds of the reaper's select only.
harvestChildAtSelect(i, p) ==
    /\ pc[i] = "harvest"
    /\ rpc[i] = "select"
    /\ pst[p] = "zombie"
    /\ ppid[p] = Self
    /\ Collect(p)
    /\ lost' = [j \in Inv |-> lost[j] \/ (fg[j] = p /\ IsFg(p))]
    /\ UNCHANGED <<cvars, hvars, sigch, pc, kind, fg, waitch, ret, fwd, rvars>>

\* Reap, Wait4(-1) returns a pid: a zombie child of the supervisor is collected.
harvestChild(i, p) ==
    /\ pc[i] = "harvest"
    /\ pst[p] = "zombie"
    /\ ppid[p] = Self
    /\ Collect(p)
    /\ lost' = [j \in Inv |-> lost[j] \/ (fg[j] = p /\ IsFg(p))]
    /\ UNCHANGED <<cvars, hvars, sigch, pc, kind, fg, waitch, ret, fwd, rvars>>

\* (mutant) Supervise returns status 0 once the harvest succeeded.
harvestDoneZero(i) ==
    /\ pc[i] = "harvest"
    /\ ChildrenOf(Self) = {}
    /\ exitch' = [exitch EXCEPT ![i] = "closed"]
    /\ pc' = [pc EXCEPT ![i] = "returned"]
    /\ ret' = [ret EXCEPT ![i] = [status |-> 0, err |-> "nil"]]
    /\ UNCHANGED <<kvars, cvars, hvars, sigch, kind, fg, waitch, lost, fwd, rpc, bc, timer, late>>

\* (mutant) Reap returns as soon as no exited child is left to collect, as a
\* non-blocking wait would.
harvestDoneNoZombie(i) ==
    /\ pc[i] = "harvest"
    /\ \A p \in ChildrenOf(Self) : pst[p] # "zombie"
    /\ exitch' = [exitch EXCEPT ![i] = "closed"]
    /\ pc' = [pc EXCEPT ![i] = "returned"]
    /\ UNCHANGED <<kvars, cvars, hvars, sigch, kind, fg, waitch, lost, ret, fwd, rpc, bc, timer, late>>

\* Reap, Wait4(-1) fails with ECHILD: Reap returns nil, its deferred
\* close(exitch) runs, and Supervise returns what Exec returned.
harvestDone(i) ==
    /\ pc[i] = "harvest"
    /\ ChildrenOf(Self) = {}
    /\ exitch' = [exitch EXCEPT ![i] = "closed"]
    /\ pc' = [pc EXCEPT ![i] = "returned"]
    /\ UNCHANGED <<kvars, cvars, hvars, sigch, kind, fg, waitch, lost, ret, fwd, rpc, bc, timer, late>>

\* Reap, Wait4(-1) fails with EINTR: the loop calls it again.
harvestInterrupted(i) ==
    /\ pc[i] = "harvest"
    /\ ChildrenOf(Self) # {}
    /\ UNCHANGED vars

\* (mutant) Supervise returns the status of Exec with the error of Reap.
harvestFailedKeepStatus(i, e) ==
    /\ pc[i] = "harvest"
    /\ exitch' = [exitch EXCEPT ![i] = "closed"]
    /\ pc' = [pc EXCEPT ![i] = "returned"]
    /\ ret' = [ret EXCEPT ![i] = [status |-> ret[i].status, err |-> e]]
    /\ UNCHANGED <<kvars, cvars, hvars, sigch, kind, fg, waitch, lost, fwd, rpc, bc, timer, late>>

\* Reap, Wait4(-1) fails with an error e that is neither EINTR nor ECHILD (the
\* call is refused, as under a system call filter): Reap returns e, its
\* deferred close(exitch) runs, and Supervise returns 111 and e.
harvestFailed(i, e) ==
    /\ pc[i] = "harvest"
    /\ exitch' = [exitch EXCEPT ![i] = "closed"]
    /\ pc' = [pc EXCEPT ![i] = "returned"]
    /\ ret' = [ret EXCEPT ![i] = [status |-> 111, err |-> e]]
    /\ UNCHANGED <<kvars, cvars, hvars, sigch, kind, fg, waitch, lost, fwd, rpc, bc, timer, late>>

\* ------------------------------------------------------------------ reaper
\* A timer armed with duration d comes to fire; one armed with the largest
\* duration does not.
Elapses(d) == d < maxInt64

\* (mutant) the closure signal does not look at r.wait.
signalAlways(by) == signalWith(r.sig, by)

\* The closure signal of reaper: nothing under wait, else signalWith(r.sig).
signal(by) == IF r.wait THEN NoBroadcast ELSE signalWith(r.sig, by)

\* The reaper starts a broadcast b, or goes (back) to its select.
Broadcast(i, b) ==
    /\ bc' = [bc EXCEPT ![i] = b]
    /\ rpc' = [rpc EXCEPT ![i] = IF b = NoBroadcast THEN "select" ELSE "send"]

\* time.NewTicker(d) panics unless d is positive.  A panic in the reaper
\* goroutine is not recovered: the program ends, every goroutine with it, and
\* the kernel hands its children to init.
panic(i) ==
    /\ rpc' = [j \in Inv |-> IF j = i THEN "panic"
                             ELSE IF rpc[j] \in {"none", "exited"} THEN rpc[j] ELSE "crashed"]
    /\ pc' = [j \in Inv |-> IF pc[j] \in {"idle", "returned"} THEN pc[j] ELSE "crashed"]
    /\ ppid' = [q \in Pids |-> IF pst[q] # "free" /\ ppid[q] = Self THEN InitPid ELSE ppid[q]]
    /\ timer' = [j \in Inv |-> IF timer[j] = "armed" THEN "off" ELSE timer[j]]
    /\ UNCHANGED <<pst, ign, wst, subreaper, nnp, kind, fg, waitch, lost, ret, fwd, bc, late>>

\* reaper up to its loop: NewTimer(r.deadline), NewTicker(r.delay),
\* signal(r.sig).
reaperStart(i) ==
    /\ rpc[i] = "start"
    /\ IF r.delay <= 0
       THEN panic(i)
       ELSE /\ timer' = [timer EXCEPT ![i] = "armed"]
            /\ \E b \in {signal("initial")} : Broadcast(i, b)
            /\ UNCHANGED <<kvars, ivars>>
    /\ UNCHANGED <<cvars, hvars, sigch, exitch, late>>

\* (mutant) the loop of signalWith returns at the first kill that fails.
reaperKillAbort(i) ==
    /\ rpc[i] = "send"
    /\ \E k \in Turn(bc[i]) :
          /\ kill(bc[i], k)
          /\ Broadcast(i, IF KillErr(bc[i].pids[k]) = "nil" THEN Rest(bc[i], k) ELSE NoBroadcast)
    /\ UNCHANGED <<cvars, hvars, sigch, ivars, timer, late, exitch>>

\* reaper inside signalWith: the next kill of the broadcast.
reaperKill(i) ==
    /\ rpc[i] = "send"
    /\ \E k \in Turn(bc[i]) :
          /\ kill(bc[i], k)
          /\ Broadcast(i, Rest(bc[i], k))
    /\ UNCHANGED <<cvars, hvars, sigch, ivars, timer, late, exitch>>

\* select, case <-exitch: the reaper returns.
reaperExit(i) ==
    /\ rpc[i] = "select"
    /\ exitch[i] = "closed"
    /\ rpc' = [rpc EXCEPT ![i] = "exited"]
    /\ UNCHANGED <<kvars, cvars, hvars, sigch, ivars, bc, timer, late, exitch>>

\* (mutant) the deadline is received but r.sig is left as it was.
reaperDeadlineNoWrite(i) ==
    /\ rpc[i] = "select"
    /\ timer[i] = "fired"
    /\ timer' = [timer EXCEPT ![i] = "done"]
    /\ UNCHANGED <<kvars, cvars, hvars, sigch, ivars, rpc, bc, exitch, late>>

\* select, case <-t.C: the working signal becomes SIGKILL.
reaperDeadline(i) ==
    /\ rpc[i] = "select"
    /\ timer[i] = "fired"
    /\ timer' = [timer EXCEPT ![i] = "done"]
    /\ r' = [r EXCEPT !.sig = SIGKILL]
    /\ UNCHANGED <<kvars, opts, strategy, hvars, sigch, ivars, rpc, bc, exitch, late>>

\* (mutant) every received signal is forwarded, the switch left out.
reaperSignalAll(i) ==
    /\ rpc[i] = "select"
    /\ sigch # <<>>
    /\ sigch' = Tail(sigch)
    /\ \E b \in {signalWith(Head(sigch), "fwd")} : Broadcast(i, b)
    /\ UNCHANGED <<kvars, cvars, hvars, ivars, timer, late, exitch>>

\* select, case sig := <-r.sigch.
reaperSignal(i) ==
    /\ rpc[i] = "select"
    /\ sigch # <<>>
    /\ sigch' = Tail(sigch)
    /\ IF Head(sigch) \in Filtered
       THEN UNCHANGED <<bc, rpc>>
       ELSE \E b \in {signalWith(Head(sigch), "fwd")} : Broadcast(i, b)
    /\ UNCHANGED <<kvars, cvars, hvars, ivars, timer, late, exitch>>

\* (history) the count of tick broadcasts begun since the timer of reaper i
\* fired that carry a signal other than SIGKILL.
lateTick(i, b) ==
    IF timer[i] = "fired" /\ b # NoBroadcast /\ b.sig # SIGKILL /\ late[i] < MaxLate
    THEN late[i] + 1
    ELSE late[i]

\* select, case <-tick.C: the ticker has put a tick in tick.C, which it does
\* every r.delay for as long as the reaper runs.
reaperTick(i) ==
    /\ rpc[i] = "select"
    /\ \E b \in {signal("tick")} :
          /\ Broadcast(i, b)
          /\ late' = [late EXCEPT ![i] = lateTick(i, b)]
    /\ UNCHANGED <<kvars, cvars, hvars, sigch, ivars, timer, exitch>>

\* The runtime fires the deadline timer of reaper i: a value is put in t.C.
\* The timer is never stopped, so it may also fire after the reaper returned.
timerFire(i) ==
    /\ timer[i] = "armed"
    /\ Elapses(r.deadline)
    /\ timer' = [timer EXCEPT ![i] = "fired"]
    /\ UNCHANGED <<kvars, cvars, hvars, sigch, ivars, rpc, bc, exitch, late>>

\* ----------------------------------------------------------- specification
Kernel ==
    \/ \E p, q \in Pids : Fork(p, q)
    \/ \E p \in Pids, c \in ExitCodes : Exit(p, c)
    \/ \E p \in Pids : ParentWait(p)
    \/ \E s \in Inbound : Deliver(s)

Supervisor(i) ==
    \/ cmdWait(i)
    \/ waitpidSignal(i)
    \/ waitpidKill(i)
    \/ waitpidExit(i)
    \/ \E p \in Pids : harvestChild(i, p)
    \/ harvestDone(i)
    \/ reaperStart(i)
    \/ reaperKill(i)
    \/ reaperExit(i)
    \/ reaperDeadline(i)
    \/ reaperSignal(i)
    \/ reaperTick(i)
    \/ timerFire(i)

\* One call of Supervise or Exec on a Reap value fresh from New.
Next ==
    \/ Kernel
    \/ \E k \in {"Supervise", "Exec"} : Call(1, k)
    \/ Supervisor(1)

Spec == Init /\ [][Next]_vars

\* The same where Wait4 may also be interrupted or refused.
WaitErrors == {"EPERM"}
NextHarvest ==
    \/ Next
    \/ harvestInterrupted(1)
    \/ \E e \in WaitErrors : harvestFailed(1, e)

SpecHarvest == Init /\ [][NextHarvest]_vars

\* The same on a Reap value made with WithDisableSetuid(true).
InitSetuid == InitWith(OptDelays, {TRUE})
SpecSetuid == InitSetuid /\ [][Next]_vars

\* The same on a Reap value made with any delay.
InitDelay == InitWith(AnyDelays, {FALSE})
SpecDelay == InitDelay /\ [][Next]_vars

\* The same, recording in dropped a forwardable signal that arrives while the
\* supervisor is in waitpid or in Reap and the channel is full: the runtime's
\* non-blocking send discards it.
DeliverFull(s) ==
    /\ Len(sigch) >= 1
    /\ \E i \in Inv : pc[i] \in {"running", "fwd", "harvest"}
    /\ dropped' = s
    /\ UNCHANGED <<kvars, cvars, sigch, ivars, rvars, pvars>>

NextRelay ==
    \/ Next
    \/ \E s \in Inbound \ Filtered : DeliverFull(s)

SpecRelay == Init /\ [][NextRelay]_vars

\* A call of Supervise or Exec and a call of Exec from another goroutine on the
\* same Reap value, which may overlap; the Reap value is made with
\* wait set, SIGTERM and a deadline that elapses.
InitConc ==
    /\ Init
    /\ subreaper
    /\ r.wait
    /\ ~r.disableSetuid
    /\ r.delay > 0
    /\ opts = [signal |-> SIGTERM, deadline |-> 1]

NextConc ==
    \/ Next
    \/ Call(2, "Exec")
    \/ cmdWait(2)
    \/ waitpidSignal(2)
    \/ waitpidKill(2)
    \/ waitpidExit(2)

SpecConc == InitConc /\ [][NextConc]_vars

\* Two calls of Supervise on the same Reap value, the second made after the
\* first has returned, while no signal is delivered to the supervisor; the
\* Reap value is made with wait unset, SIGTERM and a deadline that elapses.
InitSeq ==
    /\ Init
    /\ subreaper
    /\ ~r.wait
    /\ ~r.disableSetuid
    /\ r.delay > 0
    /\ opts = [signal |-> SIGTERM, deadline |-> 1]

CallAgain(i, k) ==
    /\ pc[1] = "returned"
    /\ Call(i, k)

\* The steps of a call when no signal is delivered to the supervisor.
Unsignalled(i) ==
    \/ cmdWait(i)
    \/ waitpidExit(i)
    \/ \E p \in Pids : harvestChild(i, p)
    \/ harvestDone(i)
    \/ reaperStart(i)
    \/ reaperKill(i)
    \/ reaperExit(i)
    \/ reaperDeadline(i)
    \/ reaperTick(i)
    \/ timerFire(i)

NextSeq ==
    \/ \E p, q \in Pids : Fork(p, q)
    \/ \E p \in Pids, c \in ExitCodes : Exit(p, c)
    \/ \E p \in Pids : ParentWait(p)
    \/ Call(1, "Supervise")
    \/ Unsignalled(1)
    \/ CallAgain(2, "Supervise")
    \/ Unsignalled(2)

SpecSeq == InitSeq /\ [][NextSeq]_vars

\* --------------------------------------------------------- package process
\* The default mount point, and the paths of the model's file system: the
\* procfs mounts, a directory that is not one, and a path that does not exist.
Procfs == "/proc"
Mounts == {"/proc", "/mnt/proc"}
Dirs == Mounts \cup {"/bin"}
\* Values of PROC ("" is unset) and arguments given to WithProcfs ("" is no
\* option); "proc" is relative to the working directory "/".
EnvPaths == {"", "/mnt/proc", "/bin"}
OptPaths == {"", "/mnt/proc", "proc", "/bin", "/none"}
\* Arguments given to WithPid (0 is no option): descendants-to-be and a pid
\* that no process has.
NoSuchPid == 9
OptPids == {0, NoSuchPid} \cup Pids
OptSnapshots == {"", "ps", "children", "bogus"}

getenv(v, def) == IF v = "" THEN def ELSE v

\* filepath.Abs with the working directory "/".
Abs(path) == IF path # "" /\ Head(path) = "/" THEN path ELSE "/" \o path

\* isProcMounted: statfs fails on a missing path; a file system whose magic
\* is not PROC_SUPER_MAGIC gives ErrNotExist.
isProcMounted(path) ==
    IF path \notin Dirs THEN "ENOENT"
    ELSE IF path \notin Mounts THEN "ErrNotExist"
    ELSE "nil"

WithPid(p, pid) == [p EXCEPT !.pid = pid]
\* (mutant) the path is stored without the check of the mount.
WithProcfsUnchecked(p, procfs) == [p EXCEPT !.procfs = Abs(procfs)]

WithProcfs(p, procfs) ==
    IF isProcMounted(Abs(procfs)) # "nil" THEN p ELSE [p EXCEPT !.procfs = Abs(procfs)]
WithSnapshot(p, snapshot) ==
    IF snapshot \in {"ps", "children"} THEN [p EXCEPT !.snapshot = snapshot] ELSE p

\* The options of o that are given, applied in turn.
ApplyOptions(p, o) ==
    LET p1 == IF o.pid = 0 THEN p ELSE WithPid(p, o.pid)
        p2 == IF o.procfs = "" THEN p1 ELSE WithProcfs(p1, o.procfs)
    IN IF o.snapshot = "" THEN p2 ELSE WithSnapshot(p2, o.snapshot)

\* os.Stat of <procfs>/self/task/<pid>/children: the listing is there when the
\* kernel has it and pid is the calling process (its main task).
procChildrenExists(procfs, pid) ==
    IF procfs \in Mounts /\ fs.children /\ pid = Self THEN "nil" ELSE "ENOENT"

\* (mutant) the children resolver is handed out whenever scan is not asked for.
NewProcessNoStat(o) ==
    LET p == ApplyOptions([kind |-> "Ps", pid |-> Self,
                           procfs |-> getenv(fs.PROC, Procfs), snapshot |-> ""], o)
    IN IF p.snapshot = "ps" THEN p ELSE [p EXCEPT !.kind = "ProcChildren"]

\* process.New(opts...): the resolver handed out.
NewProcess(o) ==
    LET p == ApplyOptions([kind |-> "Ps", pid |-> Self,
                           procfs |-> getenv(fs.PROC, Procfs), snapshot |-> ""], o)
    IN IF p.snapshot = "ps" THEN p
       ELSE IF procChildrenExists(p.procfs, p.pid) # "nil" /\ p.snapshot = "" THEN p
       ELSE [p EXCEPT !.kind = "ProcChildren"]

\* exists: os.Stat of <procfs>/<pid>.
exists(procfs, pid) == procfs \in Mounts /\ Exists(pid)

\* Children() of the resolver p: Ps.Children or ProcChildren.Children, the
\* latter with ErrNotExist when the glob of the children listings is empty.
ResolverChildren(p) ==
    IF ~exists(p.procfs, p.pid) THEN [pids |-> <<>>, any |-> FALSE, err |-> "ESRCH"]
    ELSE IF p.kind = "Ps" THEN PsChildren(p.pid)
    ELSE IF ~fs.children THEN [pids |-> <<>>, any |-> FALSE, err |-> "ErrNotExist"]
    ELSE ProcChildrenChildren(p.pid)

\* A program calls process.New with the options o.
processNew(o) ==
    /\ ps = NoResolver
    /\ po' = o
    /\ ps' = NewProcess(o)
    /\ UNCHANGED <<kvars, cvars, sigch, ivars, rvars, dropped, fs, res, stat, parsed, scan, listing>>

\* It calls Children() on the resolver.
processChildren ==
    /\ ps # NoResolver
    /\ res' = ResolverChildren(ps)
    /\ UNCHANGED <<kvars, cvars, sigch, ivars, rvars, dropped, fs, po, ps, stat, parsed, scan, listing>>

\* The process tables the program may find: each pid free or live, a live one
\* a child of the program, of init, or of a live pid below it.
Tables ==
    {t \in [Pids -> [st : {"free", "live"}, pp : {Self, InitPid} \cup Pids]] :
        \A p \in Pids :
            IF t[p].st = "free" THEN t[p].pp = InitPid
            ELSE t[p].pp \in Pids => t[p].pp < p /\ t[t[p].pp].st = "live"}

InitProcess ==
    /\ \E t \in Tables :
          /\ pst = [p \in Pids |-> t[p].st]
          /\ ppid = [p \in Pids |-> t[p].pp]
    /\ ign = [p \in Pids |-> FALSE]
    /\ wst = [p \in Pids |-> NoStatus]
    /\ subreaper = FALSE
    /\ nnp = NoPrivs
    /\ opts = [signal |-> SIGTERM, deadline |-> 1]
    /\ r = [sig |-> 0, wait |-> FALSE, deadline |-> 0, delay |-> 0, disableSetuid |-> FALSE,
          err |-> "none"]
    /\ fs \in [PROC : EnvPaths, children : BOOLEAN]
    /\ strategy = "none"
    /\ sigch = <<>>
    /\ pc = [i \in Inv |-> "idle"]
    /\ kind = [i \in Inv |-> "none"]
    /\ fg = [i \in Inv |-> 0]
    /\ waitch = [i \in Inv |-> Empty]
    /\ lost = [i \in Inv |-> FALSE]
    /\ ret = [i \in Inv |-> [status |-> 0, err |-> "nil"]]
    /\ fwd = [i \in Inv |-> NoBroadcast]
    /\ rpc = [i \in Inv |-> "none"]
    /\ bc = [i \in Inv |-> NoBroadcast]
    /\ timer = [i \in Inv |-> "off"]
    /\ late = [i \in Inv |-> 0]
    /\ exitch = [i \in Inv |-> "none"]
    /\ dropped = 0
    /\ po = NoOptions
    /\ ps = NoResolver
    /\ res = NoResult
    /\ stat = NoStat
    /\ parsed = NoPID
    /\ scan = NoScan
    /\ listing = NoListing

\* A program that uses package process alone (no Reap value is made), while
\* the processes of the table fork and exit.
NextProcess ==
    \/ \E p, q \in Pids : Fork(p, q)
    \/ \E p \in Pids : Exit(p, 0)
    \/ \E p \in Pids : ParentWait(p)
    \/ \E o \in [given : {TRUE}, pid : OptPids, procfs : OptPaths, snapshot : OptSnapshots] :
          processNew(o)
    \/ processChildren

SpecProcess == InitProcess /\ [][NextProcess]_vars

\* ------------------------------------------------------------ readProcStat
\* The stat files given to readProcStat: a pid, a command of up to MaxComm
\* characters among letters, digits, spaces, parentheses and newlines, a
\* state and a parent pid.
MaxComm == 3
CommChars == {"a", "1", "R", " ", "(", ")", "\n"}
Comms == UNION {[1..n -> CommChars] : n \in 0..MaxComm}
StatFields == [pid : {7, 42}, comm : Comms, state : {"R", "S"}, ppid : {0, 13}]

\* The file as the kernel prints it: <pid> (<comm>) <state> <ppid> and the
\* fields after it, which are numbers.
StatLine(f) ==
    Itoa(f.pid) \o <<" ", "(">> \o f.comm \o <<")", " ", f.state, " ">>
        \o Itoa(f.ppid) \o <<" ", "7", " ", "0", "\n">>

\* fmt.Sscanf, a space in the format: the input is at its end, or has a space
\* there, and the spaces up to a newline are consumed; a newline or another
\* character there is an error.
RECURSIVE DropSpaces(_)
DropSpaces(s) == IF s # <<>> /\ Head(s) = " " THEN DropSpaces(Tail(s)) ELSE s
FormatSpace(s) ==
    IF s = <<>> THEN [ok |-> TRUE, rest |-> s]
    ELSE IF Head(s) # " " THEN [ok |-> FALSE, rest |-> s]
    ELSE [ok |-> TRUE, rest |-> DropSpaces(s)]

\* fmt.Sscanf, verb %d: spaces are skipped (a newline is an error), then an
\* optional sign and at least one digit are read.
RECURSIVE CountDigits(_)
CountDigits(s) == IF s # <<>> /\ IsDigit(Head(s)) THEN 1 + CountDigits(Tail(s)) ELSE 0
ScanInt(s) ==
    LET t == DropSpaces(s)
        neg == t # <<>> /\ Head(t) = "-"
        u == IF t # <<>> /\ Head(t) \in {"-", "+"} THEN Tail(t) ELSE t
        n == CountDigits(u)
    IN IF n = 0 THEN [ok |-> FALSE, val |-> 0, rest |-> u]
       ELSE [ok |-> TRUE,
             val |-> IF neg THEN 0 - ParseUint(SubSeq(u, 1, n), 0) ELSE ParseUint(SubSeq(u, 1, n), 0),
             rest |-> SubSeq(u, n + 1, Len(u))]

\* (mutant) the position of the first byte c of s.
IndexByte(s, c) ==
    IF \E i \in DOMAIN s : s[i] = c
    THEN CHOOSE i \in DOMAIN s : s[i] = c /\ \A j \in 1..(i - 1) : s[j] # c
    ELSE 0

\* strings.LastIndexByte, positions counted from 1: 0 when c is not in s.
LastIndexByte(s, c) ==
    IF \E i \in DOMAIN s : s[i] = c
    THEN CHOOSE i \in DOMAIN s : s[i] = c /\ \A j \in (i + 1)..Len(s) : s[j] # c
    ELSE 0

ErrInvalid == [Pid |-> 0, PPid |-> 0, err |-> "ErrInvalid"]

\* readProcStat on the contents b of the stat file.
readProcStat(b) ==
    LET first == ScanInt(b)
        bracket == LastIndexByte(b, ")")
        after == SubSeq(b, bracket + 1, Len(b))
        sp1 == FormatSpace(after)
        sp2 == FormatSpace(Tail(sp1.rest))
        second == ScanInt(sp2.rest)
    IN IF ~first.ok \/ ~FormatSpace(first.rest).ok THEN ErrInvalid
       ELSE IF bracket = 0 THEN ErrInvalid
       ELSE IF ~sp1.ok \/ sp1.rest = <<>> THEN ErrInvalid
       ELSE IF ~sp2.ok \/ ~second.ok THEN ErrInvalid
       ELSE [Pid |-> first.val, PPid |-> second.val, err |-> "nil"]

\* Snapshot reads the stat file of a process.
readStat ==
    /\ parsed = NoPID
    /\ parsed' = readProcStat(StatLine(stat))
    /\ UNCHANGED <<kvars, cvars, sigch, ivars, rvars, dropped, fs, po, ps, res, stat, scan, listing>>

InitStat ==
    /\ pst = [p \in Pids |-> "free"]
    /\ ppid = [p \in Pids |-> InitPid]
    /\ ign = [p \in Pids |-> FALSE]
    /\ wst = [p \in Pids |-> NoStatus]
    /\ subreaper = FALSE
    /\ nnp = NoPrivs
    /\ opts = [signal |-> SIGTERM, deadline |-> 1]
    /\ r = [sig |-> 0, wait |-> FALSE, deadline |-> 0, delay |-> 0, disableSetuid |-> FALSE,
          err |-> "none"]
    /\ fs = [PROC |-> "", children |-> FALSE]
    /\ strategy = "none"
    /\ sigch = <<>>
    /\ pc = [i \in Inv |-> "idle"]
    /\ kind = [i \in Inv |-> "none"]
    /\ fg = [i \in Inv |-> 0]
    /\ waitch = [i \in Inv |-> Empty]
    /\ lost = [i \in Inv |-> FALSE]
    /\ ret = [i \in Inv |-> [status |-> 0, err |-> "nil"]]
    /\ fwd = [i \in Inv |-> NoBroadcast]
    /\ rpc = [i \in Inv |-> "none"]
    /\ bc = [i \in Inv |-> NoBroadcast]
    /\ timer = [i \in Inv |-> "off"]
    /\ late = [i \in Inv |-> 0]
    /\ exitch = [i \in Inv |-> "none"]
    /\ dropped = 0
    /\ po = NoOptions
    /\ ps = NoResolver
    /\ res = NoResult
    /\ stat \in StatFields
    /\ parsed = NoPID
    /\ scan = NoScan
    /\ listing = NoListing

NextStat == readStat

SpecStat == InitStat /\ [][NextStat]_vars

\* ------------------------------------------------------------- descendents
\* descendents and walk, one step of walk at a time, on any list of PID
\* records: the pids of the records are distinct, as the entries of a
\* directory are, and the PPid fields are whatever the stat files held.
MaxScan == 3
ScanPids == 1..MaxScan
ScanTables ==
    UNION {{[i \in 1..Cardinality(S) |-> [Pid |-> SeqOf(S)[i], PPid |-> f[SeqOf(S)[i]]]] :
                f \in [S -> 0..MaxScan]} : S \in SUBSET ScanPids}

\* Every variable of the supervisor and of the kernel at rest.
AtRest ==
    /\ pst = [p \in Pids |-> "free"]
    /\ ppid = [p \in Pids |-> InitPid]
    /\ ign = [p \in Pids |-> FALSE]
    /\ wst = [p \in Pids |-> NoStatus]
    /\ subreaper = FALSE
    /\ nnp = NoPrivs
    /\ opts = [signal |-> SIGTERM, deadline |-> 1]
    /\ r = [sig |-> 0, wait |-> FALSE, deadline |-> 0, delay |-> 0, disableSetuid |-> FALSE,
            err |-> "none"]
    /\ fs = [PROC |-> "", children |-> FALSE]
    /\ strategy = "none"
    /\ sigch = <<>>
    /\ pc = [i \in Inv |-> "idle"]
    /\ kind = [i \in Inv |-> "none"]
    /\ fg = [i \in Inv |-> 0]
    /\ waitch = [i \in Inv |-> Empty]
    /\ lost = [i \in Inv |-> FALSE]
    /\ ret = [i \in Inv |-> [status |-> 0, err |-> "nil"]]
    /\ fwd = [i \in Inv |-> NoBroadcast]
    /\ rpc = [i \in Inv |-> "none"]
    /\ bc = [i \in Inv |-> NoBroadcast]
    /\ timer = [i \in Inv |-> "off"]
    /\ late = [i \in Inv |-> 0]
    /\ exitch = [i \in Inv |-> "none"]
    /\ dropped = 0
    /\ po = NoOptions
    /\ ps = NoResolver
    /\ res = NoResult
    /\ stat = NoStat
    /\ parsed = NoPID

\* descendents(pids, pid) is called: the map is made and walk(pids, pid,
\* children) is entered; a frame of walk is what is left of its range over
\* subprocs(pids, pid), the innermost frame first.
InitWalk ==
    /\ AtRest
    /\ listing = NoListing
    /\ \E pids \in ScanTables, pid \in 0..MaxScan :
          scan = [pids |-> pids, pid |-> pid, stack |-> <<subprocs(pids, pid)>>,
                  children |-> {}, marks |-> [p \in ScanPids |-> 0],
                  out |-> <<>>, done |-> FALSE]

\* (mutant) nothing counts as marked.
okNever(children, p) == FALSE

\* walk: _, ok := children[p.Pid].
ok(children, p) == p.Pid \in children

\* (mutant) the record is marked and walk does not call itself.
markFlat(p, rest) ==
    [scan EXCEPT !.children = @ \cup {p.Pid},
                 !.marks[p.Pid] = @ + 1,
                 !.stack = rest]

\* walk: children[p.Pid] = struct{}{} and the call walk(pids, p.Pid, children).
mark(p, rest) ==
    [scan EXCEPT !.children = @ \cup {p.Pid},
                 !.marks[p.Pid] = @ + 1,
                 !.stack = <<subprocs(scan.pids, p.Pid)>> \o rest]

\* One iteration of the loop of the innermost walk, or its return when its
\* range is exhausted.  The depth of the calls is capped for the model.
walkStep ==
    /\ scan.stack # <<>>
    /\ Len(scan.stack) <= MaxScan + 1
    /\ LET top == Head(scan.stack)
       IN IF top = <<>>
          THEN scan' = [scan EXCEPT !.stack = Tail(scan.stack)]
          ELSE LET rest == <<Tail(top)>> \o Tail(scan.stack)
               IN IF ok(scan.children, Head(top))
                  THEN scan' = [scan EXCEPT !.stack = rest]
                  ELSE scan' = mark(Head(top), rest)
    /\ UNCHANGED <<kvars, cvars, sigch, ivars, rvars, dropped, fs, po, ps, res, stat, parsed, listing>>

\* descendents, after walk: the keys of the map are copied to a slice, in
\* the order the range over the map gives them, and returned.
descendentsReturn ==
    /\ scan.stack = <<>>
    /\ ~scan.done
    /\ \E out \in {o \in [1..Cardinality(scan.children) -> scan.children] :
                      \A i, j \in DOMAIN o : o[i] = o[j] => i = j} :
          scan' = [scan EXCEPT !.out = out, !.done = TRUE]
    /\ UNCHANGED <<kvars, cvars, sigch, ivars, rvars, dropped, fs, po, ps, res, stat, parsed, listing>>

NextWalk ==
    \/ walkStep
    \/ descendentsReturn

SpecWalk == InitWalk /\ [][NextWalk]_vars

\* The goroutine that called descendents keeps running.
SpecWalkLive == SpecWalk /\ WF_vars(NextWalk)

\* ------------------------------------------------------------ readChildren
\* readChildren on any content of a children file: digits, a character that
\* is not one, and spaces.
MaxListing == 4
ListingChars == {"2", "3", "x", " "}
Listings == UNION {[1..n -> ListingChars] : n \in 0..MaxListing}

\* strings.Fields: the maximal runs of characters that are not white space.
RECURSIVE FieldsFrom(_, _, _)
FieldsFrom(b, cur, acc) ==
    IF b = <<>> THEN (IF cur = <<>> THEN acc ELSE Append(acc, cur))
    ELSE IF Head(b) = " "
         THEN FieldsFrom(Tail(b), <<>>, IF cur = <<>> THEN acc ELSE Append(acc, cur))
         ELSE FieldsFrom(Tail(b), Append(cur, Head(b)), acc)
Fields(b) == FieldsFrom(b, <<>>, <<>>)

InitListing ==
    /\ AtRest
    /\ scan = NoScan
    /\ \E b \in Listings : listing = [b |-> b, out |-> <<>>, done |-> FALSE]

\* readChildren(path) on a file with content listing.b.
readListing ==
    /\ ~listing.done
    /\ listing' = [listing EXCEPT !.out = readChildren(Fields(listing.b)), !.done = TRUE]
    /\ UNCHANGED <<kvars, cvars, sigch, ivars, rvars, dropped, fs, po, ps, res, stat, parsed, scan>>

NextListing == readListing

SpecListing == InitListing /\ [][NextListing]_vars

\* ------------------------------------------------------------------ claims
\* The descendants of the supervisor in the kernel's process table: the pids
\* reached from it through the parent links.
RECURSIVE DescFrom(_, _)
DescFrom(S, n) ==
    IF n = 0 THEN S
    ELSE DescFrom(S \cup {q \in Pids : pst[q] # "free" /\ ppid[q] \in S \cup {Self}}, n - 1)
Descendants == DescFrom({}, NumProcs)

SuperviseReturned(i) == pc[i] = "returned" /\ kind[i] = "Supervise"

\* C1: when Supervise has returned after a successful harvest, with subreaper
\* status acquired, the supervisor has no descendant left: none in the
\* kernel's process table, and none in the set computed from its pid.
C1_NoDescendantAfterSupervise ==
    \A i \in Inv :
        SuperviseReturned(i) /\ r.err = "nil" =>
            /\ Descendants = {}
            /\ descendents(Snapshot, Self) = {}

\* C1 witness: Supervise returned after a run in which the foreground was
\* spawned and the deadline escalation took place.
C1_Witness ==
    /\ SuperviseReturned(1)
    /\ r.err = "nil"
    /\ ret[1].status = 0
    /\ opts.signal = SIGTERM
    /\ r.sig = SIGKILL

\* The pids a broadcast in progress has still to signal.
Targets(b) == Range(b.pids)
\* The broadcasts the controller makes on its own: the initial one and the ticks.
Own(b) == b.by \in {"initial", "tick"}

\* C4: no broadcast (initial, tick or forwarded, by the reaper or by waitpid)
\* has the supervisor's own pid among the pids it signals.
C4_NeverSignalsSelf ==
    \A i \in Inv : Self \notin Targets(bc[i]) /\ Self \notin Targets(fwd[i])

\* C4 witness: a tick broadcast over two descendants found by the scan resolver.
C4_Witness ==
    /\ strategy = "ps"
    /\ bc[1].by = "tick"
    /\ Len(bc[1].pids) >= 2

\* C5: under wait the controller makes no broadcast of its own, before or
\* after the deadline: every broadcast in progress forwards a signal that was
\* delivered to the supervisor and is not one of the filtered signals.
C5_WaitSendsNothingOfItsOwn ==
    r.wait =>
        \A i \in Inv : \A b \in {bc[i], fwd[i]} :
            b # NoBroadcast => b.by = "fwd" /\ b.sig \in Inbound \ Filtered

\* C5 witness: under wait, after the deadline was handled, a received signal
\* is being forwarded to a descendant.
C5_Witness ==
    /\ r.wait
    /\ timer[1] = "done"
    /\ bc[1].by = "fwd"
    /\ bc[1].sig \notin Filtered
    /\ bc[1].pids # <<>>

C9_EscalationMonotonic ==
    \A i \in Inv :
        timer[i] = "done" =>
            /\ r.sig = SIGKILL
            /\ bc[i].by = "tick" => bc[i].sig = SIGKILL

\* C9 witness: a tick broadcast after the deadline of a run configured with SIGTERM.
C9_Witness ==
    /\ opts.signal = SIGTERM
    /\ timer[1] = "done"
    /\ bc[1].by = "tick"
    /\ bc[1].pids # <<>>

\* C10: with deadline 0 the working signal is the configured signal in every
\* state, and every broadcast the controller makes on its own carries it.
C10_ZeroDeadlineNeverEscalates ==
    opts.deadline = 0 =>
        /\ r.sig = opts.signal
        /\ \A i \in Inv : Own(bc[i]) => bc[i].sig = opts.signal

\* C10 witness: a tick broadcast of SIGTERM in a run with deadline 0.
C10_Witness ==
    /\ opts.deadline = 0
    /\ opts.signal = SIGTERM
    /\ bc[1].by = "tick"
    /\ bc[1].pids # <<>>

\* C7: the (status, err) Exec returned does not change while the call is in
\* the harvest loop nor when Supervise returns from it.
C7_StatusCarriedThroughReap ==
    [][\A i \in Inv : pc[i] = "harvest" => ret'[i] = ret[i]]_vars

\* C7 witness: Supervise returned 128 + SIGINT (the foreground died from a
\* forwarded SIGINT) after a reap phase in which the deadline escalation happened.
C7_Witness ==
    /\ SuperviseReturned(1)
    /\ ret[1] = [status |-> 128 + SIGINT, err |-> "nil"]
    /\ opts.signal = SIGTERM
    /\ r.sig = SIGKILL

\* Supervise alone, on a Reap value made with wait unset, SIGTERM and a
\* deadline that elapses. The supervisor's goroutines take their steps: a step
\* that stays possible is taken, and a case of a select that is ready again
\* and again is chosen. Nothing is assumed of the supervised processes.
InitLive ==
    /\ Init
    /\ subreaper
    /\ ~r.wait
    /\ ~r.disableSetuid
    /\ r.delay > 0
    /\ opts = [signal |-> SIGTERM, deadline |-> 1]

NextLive ==
    \/ Kernel
    \/ Call(1, "Supervise")
    \/ Supervisor(1)

Fairness ==
    /\ WF_vars((\E p \in Pids : harvestChild(1, p)) \/ harvestDone(1))
    /\ WF_vars(reaperStart(1) \/ reaperKill(1))
    /\ WF_vars(timerFire(1))
    /\ SF_vars(reaperDeadline(1))
    /\ SF_vars(reaperTick(1))

LiveSpec == InitLive /\ [][NextLive]_vars /\ Fairness

\* C2: with wait unset, a deadline that elapses and SIGTERM configured, once the
\* foreground has exited and the descendants that remain all ignore SIGTERM
\* (and may keep forking), Supervise eventually returns with no descendant
\* remaining.
C2_EventuallyKilledAndReturned ==
    (pc[1] = "harvest" /\ Descendants # {} /\ \A p \in Descendants : ign[p])
        ~> (pc[1] = "returned" /\ Descendants = {})

\* The status the foreground runner is to return for the way w the foreground
\* terminated.
Expected(w) ==
    CASE w = Exited(0) -> [status |-> 0, err |-> "nil"]
      [] w.k = "sig" -> [status |-> 128 + w.v, err |-> "nil"]
      [] w.k = "exit" /\ w.v # 0 -> [status |-> w.v, err |-> "nil"]
      [] OTHER -> [status |-> 128, err |-> "ECHILD"]

\* C6: when waitpid returns, its status is the one that goes with the way the
\* foreground terminated (0, 128 + N, the exit code, or 128 with the error when
\* the wait failed), and a step of signal forwarding changes neither the
\* status nor a wait result already obtained.
C6_StatusFromTermination ==
    [][\A i \in Inv :
          /\ pc[i] = "running" /\ pc'[i] \in {"harvest", "returned"}
                => ret'[i] = Expected(waitch[i])
          /\ pc[i] = "fwd" \/ (pc[i] = "running" /\ pc'[i] \in {"running", "fwd"})
                => ret'[i] = ret[i] /\ (waitch[i] # Empty => waitch'[i] = waitch[i])]_vars

\* One call returned 128 + SIGINT, its foreground killed by the forwarded
\* signal, and the other 128 with ECHILD, its foreground collected by Reap.
C6_Witness ==
    /\ pc[1] = "returned" /\ ret[1] = [status |-> 128 + SIGINT, err |-> "nil"]
    /\ pc[2] = "returned" /\ ret[2] = [status |-> 128, err |-> "ECHILD"]

\* C3: every forwardable signal delivered to the supervisor while it is in
\* waitpid (Running) or in Reap (Reaping) reaches the relay, which then sends
\* it to every pid of its snapshot, also when it arrives while the one-slot
\* channel is occupied: no such signal is discarded unhandled.
C3_DeliveredSignalIsRelayed == dropped = 0

\* C11: a step that takes SIGCHLD, SIGIO, SIGPIPE or SIGURG from the signal
\* channel, in waitpid or in the reaper, starts no broadcast and changes no
\* process: the signal is forwarded to nobody and nothing is sent.
C11_FilteredNeverForwarded ==
    [][sigch # <<>> /\ Head(sigch) \in {SIGCHLD, SIGIO, SIGPIPE, SIGURG} /\ sigch' = Tail(sigch)
          => fwd' = fwd /\ bc' = bc /\ pst' = pst /\ wst' = wst]_vars

\* C11 witness: the reaper is at its select with a filtered signal to receive
\* while a descendant that would die of it, were it sent, is alive.
C11_Witness ==
    /\ rpc[1] = "select"
    /\ sigch # <<>> /\ Head(sigch) \in {SIGIO, SIGPIPE}
    /\ \E p \in Descendants : pst[p] = "live" /\ ~ign[p]

\* C12: once every call of Exec on the Reap value has returned (the subreaper
\* acquired, no call of Reap), the calling process has no subprocess left:
\* Children() of the current process is empty.
C12_ExecLeavesNoSubprocess ==
    (/\ r.err = "nil"
     /\ \E i \in Inv : pc[i] = "returned"
     /\ \A i \in Inv : pc[i] \in {"idle", "returned"} /\ kind[i] # "Supervise")
        => Children.err = "nil" /\ Children.pids = <<>>

\* C13: a call in waitpid (Running) leaves it only with the result of cmd.Wait
\* in hand, that is after the foreground terminated, and Supervise then enters
\* Reap; a step that takes a signal from the channel leaves the call in
\* waitpid.
C13_OnlyForegroundEndsRunning ==
    [][\A i \in Inv :
          pc[i] \in {"running", "fwd"} =>
             /\ pc'[i] \notin {"running", "fwd"} =>
                   /\ waitch[i] # Empty
                   /\ pc'[i] = IF kind[i] = "Supervise" THEN "harvest" ELSE "returned"
             /\ sigch # <<>> /\ sigch' = Tail(sigch) =>
                   pc'[i] \in {"running", "fwd"}]_vars

\* C13 witness: SIGINT was received in waitpid and is being forwarded, the
\* foreground still alive and the call still in waitpid.
C13_Witness ==
    /\ pc[1] = "fwd"
    /\ fwd[1].sig = SIGINT
    /\ pst[fg[1]] = "live"
    /\ waitch[1] = Empty

\* The root of the resolver handed out has a directory under its procfs root,
\* and the children listing for it is there.
RootDir == ps.procfs \in {"/proc", "/mnt/proc"} /\ (ps.pid = Self \/ (ps.pid \in Pids /\ pst[ps.pid] # "free"))
ListingThere == ps.procfs \in {"/proc", "/mnt/proc"} /\ fs.children /\ ps.pid = Self
\* The descendants of pid in the kernel's process table.
RECURSIVE BelowFrom(_, _, _)
BelowFrom(pid, S, n) ==
    IF n = 0 THEN S
    ELSE BelowFrom(pid, S \cup {q \in Pids : pst[q] # "free" /\ ppid[q] \in S \cup {pid}}, n - 1)
Below(pid) == BelowFrom(pid, {}, NumProcs)

\* C14: under either strategy, Children() for a root pid with no directory
\* under the procfs root gives ErrSearch and no pids, and for an existing
\* root with no descendants gives an empty list and no error.
C14_ErrSearchOrEmpty ==
    ps # NoResolver =>
        /\ ~RootDir => ResolverChildren(ps).err = "ESRCH" /\ ResolverChildren(ps).pids = <<>>
        /\ RootDir /\ Below(ps.pid) = {} =>
              ResolverChildren(ps).err = "nil" /\ ResolverChildren(ps).pids = <<>>

\* C15: with no strategy set New gives the children resolver exactly when the
\* children listing for the root pid is there, and the scan resolver
\* otherwise; with scan asked for it gives the scan resolver in both cases.
C15_StrategySelection ==
    ps # NoResolver =>
        /\ po.snapshot = "" => (ps.kind = "ProcChildren" <=> ListingThere)
        /\ po.snapshot = "" /\ ~ListingThere => ps.kind = "Ps"
        /\ po.snapshot = "ps" => ps.kind = "Ps"

\* C15 witness: scan was asked for and handed out although the listing is there.
C15_Witness ==
    po.snapshot = "ps" /\ ps.kind = "Ps" /\ ListingThere /\ res.err = "nil"

\* C16: with the children strategy asked for and the children listing absent,
\* construction fails: no resolver is handed out.
C16_ExplicitChildrenNeedsListing ==
    po.snapshot = "children" /\ ~ListingThere => ps.kind \notin {"Ps", "ProcChildren"}

\* C17: a resolver is handed out, and Children() run, only with a procfs root
\* that is a procfs mount, whether the root comes from WithProcfs or from PROC.
C17_ProcfsVerifiedBeforeUse ==
    ps # NoResolver \/ res # NoResult => ps.procfs \in {"/proc", "/mnt/proc"}

NumThreads == 2
Threads == 1..NumThreads

C20_StatParsed ==
    parsed # NoPID => parsed = [Pid |-> stat.pid, PPid |-> stat.ppid, err |-> "nil"]

\* C20 witness: a command with a ')', a space and a newline in it was parsed.
C20_Witness ==
    /\ stat.comm = <<")", " ", "\n">>
    /\ stat.ppid = 13
    /\ parsed.err = "nil"

\* C21: with disable-setuid set, every process below the supervisor carries
\* the no-new-privileges bit from the moment it exists (the bit is set on the
\* calling thread before the foreground is spawned, and inherited on fork);
\* when setting the bit fails, Exec returns 111 and spawns nothing.
C21_NoNewPrivsBeforeSpawn ==
    [][/\ r.disableSetuid => \A p \in Pids : pst'[p] # "free" => nnp'.proc[p]
       /\ \A i \in Inv :
             ret'[i].err = "prctl(PR_SET_NO_NEW_PRIVS)" /\ ret[i] # ret'[i] =>
                 ret'[i].status = 111 /\ pst' = pst /\ fg'[i] = 0]_vars

\* C21 witness: under disable-setuid a descendant forked by the foreground is
\* alive and carries the bit.
C21_Witness ==
    /\ r.disableSetuid
    /\ \E p \in Pids : pst[p] = "live" /\ ppid[p] = fg[1] /\ nnp.proc[p]

\* C22: whatever delay the Reap value was configured with, the interval the
\* reaper arms its ticker with is at least 1 ns, and arming the ticker succeeds.
C22_TickIntervalValid ==
    \A i \in Inv : rpc[i] \notin {"none", "start"} => r.delay >= 1 /\ rpc[i] # "panic"

\* The pids reached from root by the child-of relation of a list of PID
\* records, in one or more steps.
RECURSIVE ReachFrom(_, _, _, _)
ReachFrom(pids, root, S, n) ==
    IF n = 0 THEN S
    ELSE ReachFrom(pids, root,
                   S \cup {pids[i].Pid : i \in {j \in DOMAIN pids : pids[j].PPid \in S \cup {root}}},
                   n - 1)
Reach(pids, root) == ReachFrom(pids, root, {}, Len(pids))

\* C23: on a list of records with distinct pids, descendents returns the pids
\* reachable from the root through the child-of relation, each exactly once.
C23_ScanIsReachableSet ==
    scan.done =>
        /\ Range(scan.out) = Reach(scan.pids, scan.pid)
        /\ \A i, j \in DOMAIN scan.out : scan.out[i] = scan.out[j] => i = j
        /\ Range(scan.out) = descendents(scan.pids, scan.pid)

\* C23 witness: a result holding a child and a grandchild of the root.
C23_Witness ==
    /\ scan.done
    /\ scan.pid \notin Range(scan.out)
    /\ \E i, j \in DOMAIN scan.pids :
          /\ scan.pids[i].PPid = scan.pid
          /\ scan.pids[j].PPid = scan.pids[i].Pid
          /\ scan.pids[j].Pid # scan.pids[i].Pid
          /\ {scan.pids[i].Pid, scan.pids[j].Pid} \subseteq Range(scan.out)

\* C24: whatever the PPid fields of the records, the result of descendents
\* for a root does not contain the root.
C24_RootNotInScan ==
    scan.done => scan.pid \notin Range(scan.out)

\* C25: on every list of records, cyclic parent links included, descendents
\* returns, and walk marks (and walks from) each pid at most once.
C25_WalkTerminates ==
    /\ [](\A p \in ScanPids : scan.marks[p] <= 1)
    /\ <>scan.done

\* C25 witness: descendents returned on a list where the root's record and
\* another record name each other as parent; both were marked.
C25_Witness ==
    /\ scan.done
    /\ \E i, j \in DOMAIN scan.pids :
          /\ i # j
          /\ scan.pids[i].PPid = scan.pids[j].Pid
          /\ scan.pids[j].PPid = scan.pids[i].Pid
          /\ {scan.pids[i].Pid, scan.pids[j].Pid} \subseteq Range(scan.out)
          /\ scan.pid = scan.pids[i].Pid

\* C26: in every state, with the supervisor as root, the children resolver
\* and the scan resolver return the same set of pids, the supervisor's
\* transitive descendants.
C26_StrategiesAgree ==
    /\ Range(ProcChildrenChildren(Self).pids) = Range(PsChildren(Self).pids)
    /\ Range(ProcChildrenChildren(Self).pids) = Descendants

\* The values of the tokens of a listing that are decimal integers, in order.
IntegerTokens(tokens) ==
    LET ints == SelectSeq(tokens, LAMBDA t : Atoi(t).err = "nil")
    IN [i \in DOMAIN ints |-> Atoi(ints[i]).val]

\* C27: for every content of a children file, readChildren returns the values
\* of its integer tokens, one element each; a token that is not an integer
\* contributes no element.
C27_OnlyIntegerTokens ==
    listing.done => listing.out = IntegerTokens(Fields(listing.b))

\* C28: in every call of Supervise, a second call on the same Reap value
\* included, the initial broadcast and the tick broadcasts the call's reaper
\* makes while its own deadline timer has not fired carry the configured signal.
C28_ReapStartsFromConfiguredSignal ==
    \A i \in Inv :
        bc[i].by \in {"initial", "tick"} /\ timer[i] = "armed" => bc[i].sig = opts.signal

\* C29: when Exec failed in Supervise because the subreaper attribute was not
\* acquired (111) or the foreground could not be started (127), Supervise
\* starts no reaper goroutine, begins no broadcast and does not enter the
\* harvest loop.
C29_FailedIsTerminal ==
    \A i \in Inv :
        kind[i] = "Supervise" /\ ret[i].err \in {"EINVAL", "ENOENT"} =>
            rpc[i] = "none" /\ bc[i] = NoBroadcast /\ pc[i] # "harvest"

\* C30: with wait unset, after the deadline timer of a reaper has fired at
\* most one tick broadcast carrying the signal configured is begun.
C30_EscalationWithinOneTick ==
    \A i \in Inv : ~r.wait => late[i] <= 1

\* Supervise alone, on a Reap value made with wait unset, SIGTERM and either
\* deadline, under the scheduling of LiveSpec.
InitBirth ==
    /\ Init
    /\ subreaper
    /\ ~r.wait
    /\ opts.signal = SIGTERM

SpecBirth == InitBirth /\ [][NextLive]_vars /\ Fairness

\* C31: with wait unset, a descendant that is alive in the reap phase and is
\* not in the snapshot of the broadcast under way is in a later snapshot of
\* the reaper (whose loop then sends it the working signal), or is no longer
\* alive, whichever resolver process.New handed out.
C31_LateBirthIsSignalled ==
    \A p \in Pids :
        (/\ pc[1] = "harvest"
         /\ rpc[1] \in {"select", "send"}
         /\ pst[p] = "live"
         /\ p \in Descendants
         /\ p \notin Range(bc[1].pids))
            ~> (pst[p] # "live" \/ p \in Range(bc[1].pids))

\* C32: every step of a broadcast of the reaper takes exactly one pid off the
\* pids of its snapshot still to be sent to, whether the kill succeeds or
\* fails, and the reaper stays in the loop until none is left, then goes back
\* to its select.
C32_BroadcastIsBestEffort ==
    [][\A i \in Inv :
          rpc[i] = "send" /\ bc'[i] # bc[i] =>
              /\ Len(bc[i].pids) > 1 =>
                    /\ rpc'[i] = "send"
                    /\ Len(bc'[i].pids) = Len(bc[i].pids) - 1
                    /\ Range(bc'[i].pids) \subseteq Range(bc[i].pids)
                    /\ bc'[i].sig = bc[i].sig
              /\ Len(bc[i].pids) = 1 => rpc'[i] = "select" /\ bc'[i] = NoBroadcast]_vars

\* C32 witness: a broadcast is under way whose snapshot holds a pid that no
\* longer exists (its kill will fail with ESRCH) and a pid that is alive.
C32_Witness ==
    /\ rpc[1] = "send"
    /\ \E k, l \in DOMAIN bc[1].pids :
          /\ KillErr(bc[1].pids[k]) = "ESRCH"
          /\ pst[bc[1].pids[l]] = "live"

\* C33: the harvest loop stays in the loop when it has collected a child and
\* when Wait4 was interrupted; it ends only by returning, with exitch closed:
\* either Wait4 reported no child, and Supervise returns what Exec returned,
\* or Wait4 failed otherwise, and Supervise returns 111 and that error.
C33_HarvestLoop ==
    [][\A i \in Inv :
          pc[i] = "harvest" =>
              /\ pc'[i] \in {"harvest", "returned"}
              /\ (\E p \in Pids : pst[p] = "zombie" /\ ppid[p] = Self /\ pst'[p] = "free")
                    => pc'[i] = "harvest"
              /\ pc'[i] = "returned" =>
                    /\ exitch'[i] = "closed"
                    /\ \/ ChildrenOf(Self) = {} /\ ret'[i] = ret[i]
                       \/ \E e \in WaitErrors : ret'[i] = [status |-> 111, err |-> e]]_vars

\* C33 witness: Supervise returned 111 and the error of Wait4 although Exec
\* had run a foreground, and a child of the supervisor is left.
C33_Witness ==
    /\ SuperviseReturned(1)
    /\ ret[1] = [status |-> 111, err |-> "EPERM"]
    /\ r.err = "nil"
    /\ \E p \in Pids : pst[p] = "live" /\ ppid[p] = Self

\* Call i has a goroutine blocked in a wait call on children: cmd.Wait in the
\* goroutine of execv, or Wait4(-1) in the loop of Reap.
InWait(i) ==
    \/ pc[i] = "harvest"
    \/ pc[i] \in {"running", "fwd"} /\ waitch[i] = Empty

\* C34: at most one goroutine of the supervisor is in a wait call on children
\* at a time, also when calls of Exec and Supervise on the Reap value overlap.
C34_OneWaiterAtATime ==
    \A i, j \in Inv : InWait(i) /\ InWait(j) => i = j

\* C35: with overlapping calls on one Reap value, what cmd.Wait hands to a
\* call is the wait status of that call's own foreground, or the no-child
\* error when the foreground was collected by another waiter (the call then
\* returns 128 with ECHILD); it is never the status of another process.
C35_OwnStatusOrNoChild ==
    [][\A i \in Inv :
          waitch[i] = Empty /\ waitch'[i] # Empty
              => IF lost[i]
                 THEN waitch'[i] = [k |-> "err", v |-> 0]
                 ELSE waitch'[i] = wst[fg[i]] /\ pst'[fg[i]] = "free"]_vars

\* The tasks standing at a select that receives from r.sigch: waitpid of a
\* running call, and a reaper in its loop.
Readers ==
    {<<"waitpid", i>> : i \in {j \in Inv : pc[j] = "running"}}
        \cup {<<"reaper", i>> : i \in {j \in Inv : rpc[j] = "select"}}

\* C36: the signal channel has one reader at a time, waitpid while the
\* foreground runs and the reaper during the reap phase, also across
\* successive calls of Supervise on one Reap value.
C36_SingleReader == Cardinality(Readers) <= 1

\* C37: once the harvest loop is over the reaper leaves its loop, and from
\* then on its timer and its ticker are out of use: the runtime holds no
\* armed timer of a reaper that has returned.
C37_TimerReleasedAtExit == \A i \in Inv : rpc[i] = "exited" => timer[i] # "armed"

\* C38: once a call of Supervise has returned, its reaper sends no signal to
\* any process: no kill of a broadcast of that reaper, begun before or after
\* the return, reaches an existing process, a later call's foreground included.
C38_NoSignalAfterReturn ==
    [][\A i \in Inv :
          pc[i] = "returned" /\ rpc[i] = "send" /\ bc'[i] # bc[i]
              => \A p \in Range(bc[i].pids) \ Range(bc'[i].pids) : ~Exists(p)]_vars

\* C39: broadcasts do not block the harvest: during the reap phase an exited
\* child of the supervisor can be collected whatever the reaper is doing, and
\* the deadline takes effect from the timer alone, no child having to exit:
\* the timer can fire while it is armed and the reaper can take it at its select.
C39_HarvestNeverBlocked ==
    \A i \in Inv :
        /\ \A p \in Pids :
              pc[i] = "harvest" /\ pst[p] = "zombie" /\ ppid[p] = Self
                  => ENABLED harvestChild(i, p)
        /\ timer[i] = "armed" /\ Elapses(r.deadline) => ENABLED timerFire(i)
        /\ rpc[i] = "select" /\ timer[i] = "fired" => ENABLED reaperDeadline(i)

\* The reaper is in the middle of a broadcast after the deadline while an
\* exited child waits to be collected and another child is alive.
C39_Witness ==
    /\ pc[1] = "harvest"
    /\ rpc[1] = "send"
    /\ timer[1] = "done"
    /\ \E p, q \in Pids :
          /\ pst[p] = "zombie" /\ ppid[p] = Self
          /\ pst[q] = "live" /\ ppid[q] = Self

====
